---- MODULE Spec2Model ----
(***************************************************************************)
(* European Alternatives: the trust-score calculation                      *)
(* (src/utils/trustScore.ts), the browse page's filter/search/sort         *)
(* pipeline (BrowsePage) and the validation tool for the US vendor         *)
(* comparisons (scripts/validate-us-vendor-comparisons.cjs).               *)
(*                                                                         *)
(* Strings that the code converts or searches (tags, names, descriptions,  *)
(* search terms) are sequences of one-character strings, so that           *)
(* toLowerCase, trim and includes are computed character by character.     *)
(* Strings that the code only compares for identity (country codes,        *)
(* severities, category ids, pricing tiers) are TLA+ strings.              *)
(* An optional field is a sequence of length 0 (absent) or 1 (present).    *)
(***************************************************************************)
EXTENDS Integers, Sequences, FiniteSets, TLC

VARIABLES
  \* trustScore.ts: the entry handed to the scoring functions and what they returned
  alternative, calc, effective,
  \* BrowsePage: the catalogue, the router's URL parameters, those of the last
  \* render (useSearchParams), the ref of the latest written parameters
  alternatives, location, searchParams, latestParamsRef,
  \* BrowsePage: the useState values of the last render
  countryFilters, pricingFilters, openSourceOnly, sortBy,
  \* BrowsePage: the state updates queued since the last render, their number,
  \* and the memoized query result of the last render
  queued, batched, filteredAlternatives,
  \* validation tool: the catalogue it loaded, which copy of the script runs,
  \* the loop positions (entry, comparison; 0 outside a comparison loop), the
  \* script's locals and the process's exit status
  loadedAlternatives, script, entryIndex, vendorIndex, seenIds, failures, comparedVendors, exitCode

scoreVars == <<alternative, calc, effective>>
browseVars ==
  <<alternatives, location, searchParams, latestParamsRef, countryFilters, pricingFilters,
    openSourceOnly, sortBy, queued, batched, filteredAlternatives>>
validatorVars ==
  <<loadedAlternatives, script, entryIndex, vendorIndex, seenIds, failures, comparedVendors, exitCode>>
vars == <<scoreVars, browseVars, validatorVars>>

\* ---------------------------------------------------------------- bounds
\* Longest free tag list drawn for an entry.
MaxTags == 2
\* Longest free reservation list drawn for an entry.
MaxReservations == 3
\* Most handler calls of the browse page between two renders.
MaxHandlersPerRender == 1
\* Most handler calls in one tick, where the handlers of a tick are studied.
MaxHandlersPerTick == 2
\* Longest free list of vendor comparisons of a validated entry.
MaxVendors == 2
\* Most entries of a validated catalogue.
MaxEntries == 2

\* ------------------------------------------------------- optional values
None == <<>>
Some(v) == <<v>>
\* JavaScript's `opt ?? dflt`.
Coalesce(opt, dflt) == IF opt = None THEN dflt ELSE opt[1]

Min(a, b) == IF a <= b THEN a ELSE b
Max(a, b) == IF a >= b THEN a ELSE b

\* All sequences over S of length at most n.
SeqUpTo(S, n) == UNION {[1..k -> S] : k \in 0..n}

\* --------------------------------------------------------------- strings
UpperCase ==
  <<"A","B","C","D","E","F","G","H","I","J","K","L","M",
    "N","O","P","Q","R","S","T","U","V","W","X","Y","Z">>
LowerCase ==
  <<"a","b","c","d","e","f","g","h","i","j","k","l","m",
    "n","o","p","q","r","s","t","u","v","w","x","y","z">>

\* The characters that occur in the model's strings.
Characters ==
  {UpperCase[i] : i \in 1..26} \cup {LowerCase[i] : i \in 1..26} \cup {" ", "\t", "\n", "-"}

\* The lower-case form of each character: letters A-Z map to a-z, every
\* other character to itself.
lowerCaseTable ==
  [c \in Characters |->
     IF \E i \in 1..26 : UpperCase[i] = c
     THEN LowerCase[CHOOSE i \in 1..26 : UpperCase[i] = c]
     ELSE c]

toLowerCaseChar(c) == lowerCaseTable[c]

\* String.prototype.toLowerCase
toLowerCase(s) == [i \in 1..Len(s) |-> toLowerCaseChar(s[i])]

WhiteSpace == {" ", "\t", "\n"}

\* String.prototype.trim
RECURSIVE trimStart(_)
trimStart(s) ==
  IF s # <<>> /\ Head(s) \in WhiteSpace THEN trimStart(Tail(s)) ELSE s
RECURSIVE trimEnd(_)
trimEnd(s) ==
  IF s # <<>> /\ s[Len(s)] \in WhiteSpace THEN trimEnd(SubSeq(s, 1, Len(s) - 1)) ELSE s
trim(s) == trimEnd(trimStart(s))

\* String.prototype.includes
includes(s, t) ==
  \E k \in 0..(Len(s) - Len(t)) : SubSeq(s, k + 1, k + Len(t)) = t

\* Array.prototype.includes
contains(list, x) == \E i \in 1..Len(list) : list[i] = x

\* Collation order of the characters that occur in the catalogue: white
\* space and punctuation before letters, letters alphabetically whatever
\* their case.
CollationOrder ==
  <<"\t", "\n", " ", "-">> \o LowerCase
primaryWeightTable ==
  [c \in Characters |->
     CHOOSE i \in 1..Len(CollationOrder) : CollationOrder[i] = toLowerCaseChar(c)]
primaryWeight(c) == primaryWeightTable[c]
isUpperCase(c) == lowerCaseTable[c] # c

\* Lexicographic comparison of two sequences of integer weights: -1, 0 or 1.
RECURSIVE compareWeights(_, _)
compareWeights(a, b) ==
  IF a = <<>> THEN (IF b = <<>> THEN 0 ELSE -1)
  ELSE IF b = <<>> THEN 1
  ELSE IF Head(a) < Head(b) THEN -1
  ELSE IF Head(a) > Head(b) THEN 1
  ELSE compareWeights(Tail(a), Tail(b))

\* String.prototype.localeCompare: letters first compared without regard
\* to case, a difference of case alone decides last, lower case first.
localeCompare(a, b) ==
  LET primary == compareWeights([i \in 1..Len(a) |-> primaryWeight(a[i])],
                                [i \in 1..Len(b) |-> primaryWeight(b[i])])
  IN  IF primary # 0 THEN primary
      ELSE compareWeights([i \in 1..Len(a) |-> IF isUpperCase(a[i]) THEN 1 ELSE 0],
                          [i \in 1..Len(b) |-> IF isUpperCase(b[i]) THEN 1 ELSE 0])

\* ------------------------------------------------- trustScore.ts tables
euMemberStates ==
  {"at", "be", "bg", "hr", "cy", "cz", "dk", "ee", "fi", "fr", "de", "gr", "hu", "ie", "it",
   "lv", "lt", "lu", "mt", "nl", "pl", "pt", "ro", "sk", "si", "es", "se"}

europeanNonEU == {"ch", "no", "gb", "is"}

\* The CountryCode union of types/index.ts.
CountryCode == euMemberStates \cup europeanNonEU \cup {"ca", "us", "eu"}

privacyTagGroupPrimary ==
  { <<"p","r","i","v","a","c","y">>,
    <<"g","d","p","r">>,
    <<"e","n","c","r","y","p","t","i","o","n">>,
    <<"z","e","r","o","-","k","n","o","w","l","e","d","g","e">>,
    <<"n","o","-","l","o","g","s">> }

privacyTagGroupSecondary ==
  { <<"o","f","f","l","i","n","e">>,
    <<"f","e","d","e","r","a","t","e","d">>,
    <<"l","o","c","a","l">> }

\* ---------------------------------------------- trustScore.ts functions
getJurisdictionScoreEuFour(country) ==
  IF country \in euMemberStates \cup {"eu"} THEN 4
  ELSE IF country \in europeanNonEU THEN 3
  ELSE IF country = "us" THEN 1
  ELSE 2

getJurisdictionScore(country) ==
  IF country \in euMemberStates THEN 4
  ELSE IF country \in europeanNonEU THEN 3
  ELSE IF country = "eu" THEN 3
  ELSE IF country = "us" THEN 1
  ELSE 2

getOpennessScoreFlagFirst(alt) ==
  IF alt.isOpenSource THEN (IF alt.openSourceLevel = Some("full") THEN 3 ELSE 2)
  ELSE 1

getOpennessScore(alt) ==
  CASE alt.openSourceLevel = Some("full") -> 3
    [] alt.openSourceLevel = Some("partial") -> 2
    [] alt.openSourceLevel = Some("none") -> 1
    [] OTHER -> IF alt.isOpenSource THEN 2 ELSE 1

getPrivacySignalScorePerTag(tags) ==
  LET normalized == {toLowerCase(tags[i]) : i \in 1..Len(tags)}
  IN  Cardinality(normalized \cap privacyTagGroupPrimary)
      + Cardinality(normalized \cap privacyTagGroupSecondary)

getPrivacySignalScore(tags) ==
  LET normalized == {toLowerCase(tags[i]) : i \in 1..Len(tags)}
      primary == IF \E tag \in privacyTagGroupPrimary : tag \in normalized THEN 1 ELSE 0
      secondary == IF \E tag \in privacyTagGroupSecondary : tag \in normalized THEN 1 ELSE 0
  IN  primary + secondary

getSovereigntyScoreOne(selfHostable) == IF selfHostable THEN 1 ELSE 0

getSovereigntyScore(selfHostable) == IF selfHostable THEN 2 ELSE 0

\* The reducer of getReservationPenalty: one reservation added to the sum.
severityStep(sum, reservation) ==
  CASE reservation.severity = Some("major") -> sum + 3
    [] reservation.severity = Some("moderate") -> sum + 2
    [] OTHER -> sum + 1

RECURSIVE reduceReservations(_, _)
reduceReservations(reservations, sum) ==
  IF reservations = <<>> THEN sum
  ELSE reduceReservations(Tail(reservations), severityStep(sum, Head(reservations)))

getReservationPenaltyCapped(reservations) == Min(5, reduceReservations(reservations, 0))

getReservationPenalty(reservations) == reduceReservations(reservations, 0)

clampScoreNoFloor(value) == Min(10, value)

clampScore(value) == Min(10, Max(1, value))

\* rawScore of calculateTrustScore.
rawScore(jurisdiction, openness, privacySignals, sovereigntyBonus, reservationPenalty) ==
  jurisdiction + openness + privacySignals + sovereigntyBonus - reservationPenalty

usCapAppliedAboveFive(alt, clampedScore) ==
  LET selfHostable == Coalesce(alt.selfHostable, FALSE)
  IN  alt.country = "us" /\ ~selfHostable /\ clampedScore > 5

usCapAppliedIgnoresSelfHosting(alt, clampedScore) ==
  alt.country = "us" /\ clampedScore > 4

\* usCapApplied of calculateTrustScore.
usCapApplied(alt, clampedScore) ==
  LET selfHostable == Coalesce(alt.selfHostable, FALSE)
  IN  alt.country = "us" /\ ~selfHostable /\ clampedScore > 4

calculateTrustScore(alt) ==
  LET jurisdiction == getJurisdictionScore(alt.country)
      openness == getOpennessScore(alt)
      privacySignals == getPrivacySignalScore(alt.tags)
      sovereigntyBonus == getSovereigntyScore(Coalesce(alt.selfHostable, FALSE))
      reservationPenalty == getReservationPenalty(Coalesce(alt.reservations, <<>>))
      clampedScore ==
        clampScore(rawScore(jurisdiction, openness, privacySignals,
                            sovereigntyBonus, reservationPenalty))
      capped == usCapApplied(alt, clampedScore)
  IN  [ score |-> IF capped THEN 4 ELSE clampedScore,
        breakdown |->
          [ jurisdiction |-> jurisdiction,
            openness |-> openness,
            privacySignals |-> privacySignals,
            sovereigntyBonus |-> sovereigntyBonus,
            reservationPenalty |-> reservationPenalty,
            usCapApplied |-> capped ] ]

getEffectiveTrustScoreClamped(alt) ==
  IF alt.trustScore # None THEN clampScore(alt.trustScore[1])
  ELSE calculateTrustScore(alt).score

getEffectiveTrustScore(alt) ==
  IF alt.trustScore # None THEN alt.trustScore[1]
  ELSE calculateTrustScore(
         [ country |-> alt.country,
           isOpenSource |-> alt.isOpenSource,
           openSourceLevel |-> alt.openSourceLevel,
           tags |-> alt.tags,
           selfHostable |-> alt.selfHostable,
           reservations |-> alt.reservations ]).score

\* ------------------------------------------------------ scoring inputs
tagPrivacy == <<"p","r","i","v","a","c","y">>
tagGDPR == <<"G","D","P","R">>
tagEncryption == <<"e","n","c","r","y","p","t","i","o","n">>
tagZeroKnowledge == <<"z","e","r","o","-","k","n","o","w","l","e","d","g","e">>
tagNoLogs == <<"N","o","-","L","o","g","s">>
tagOffline == <<"O","f","f","l","i","n","e">>
tagFederated == <<"f","e","d","e","r","a","t","e","d">>
tagLocal == <<"L","O","C","A","L">>
tagLocalFirst == <<"l","o","c","a","l","-","f","i","r","s","t">>
tagAdFree == <<"a","d","-","f","r","e","e">>
tagPostQuantum == <<"p","o","s","t","-","q","u","a","n","t","u","m">>

\* Tags of the catalogue entry 'tuta' (data/alternatives.ts).
TutaTags == <<tagEncryption, tagPrivacy, tagGDPR, tagZeroKnowledge, tagAdFree, tagPostQuantum>>
ExampleTags == <<tagEncryption, tagPrivacy>>
AllPrimaryTags == <<tagPrivacy, tagGDPR, tagEncryption, tagZeroKnowledge, tagNoLogs>>
AllSecondaryTags == <<tagOffline, tagFederated, tagLocal>>

TagPool == {tagPrivacy, tagGDPR, tagOffline, tagLocal, tagLocalFirst, tagAdFree}

TagLists ==
  SeqUpTo(TagPool, MaxTags)
    \cup {TutaTags, ExampleTags, AllPrimaryTags, AllSecondaryTags,
          AllPrimaryTags \o AllSecondaryTags,
          <<tagEncryption>>, <<tagZeroKnowledge>>, <<tagNoLogs>>, <<tagFederated>>}

\* A Reservation; only its severity is read by the scoring code.  "critical"
\* stands for a severity outside ReservationSeverity, None for a missing one.
Reservation(severity) == [severity |-> severity]
Severities == {Some("major"), Some("moderate"), Some("minor"), Some("critical"), None}
Reservations == {Reservation(s) : s \in Severities}
FourMajor == [i \in 1..4 |-> Reservation(Some("major"))]

ReservationLists ==
  {None} \cup {Some(r) : r \in SeqUpTo(Reservations, MaxReservations) \cup {FourMajor}}

OpenSourceLevels == {None, Some("full"), Some("partial"), Some("none")}
OptionalBooleans == {None, Some(TRUE), Some(FALSE)}
TrustScores == {None, Some(0), Some(7), Some(12)}
SampleCountries == {"de", "ch", "eu", "us", "ca"}

Entry(country, level, flag, tags, selfHostable, reservations, trustScore) ==
  [ country |-> country,
    isOpenSource |-> flag,
    openSourceLevel |-> level,
    tags |-> tags,
    selfHostable |-> selfHostable,
    reservations |-> reservations,
    trustScore |-> trustScore ]

\* Every country code with every openness and self-hosting value.
JurisdictionInputs ==
  { Entry(c, l, f, t, s, r, None) :
      c \in CountryCode, l \in OpenSourceLevels, f \in BOOLEAN,
      t \in {<<>>, ExampleTags}, s \in OptionalBooleans,
      r \in {None, Some(<<>>), Some(<<Reservation(Some("major"))>>)} }

\* Every tag list.
TagInputs ==
  { Entry(c, l, TRUE, t, s, None, None) :
      c \in {"de", "us"}, l \in {None, Some("full")}, t \in TagLists,
      s \in {None, Some(TRUE)} }

\* Every reservation list against every class of jurisdiction.
ReservationInputs ==
  { Entry(c, l, FALSE, t, s, r, None) :
      c \in SampleCountries, l \in {None, Some("full")},
      t \in {<<>>, <<tagGDPR, tagLocal>>}, s \in OptionalBooleans,
      r \in ReservationLists }

\* Entries that carry a precomputed score.
OverrideInputs ==
  { Entry(c, l, f, t, s, r, ts) :
      c \in SampleCountries, l \in {None, Some("full")}, f \in BOOLEAN,
      t \in {<<>>, ExampleTags}, s \in OptionalBooleans,
      r \in {None, Some(FourMajor)}, ts \in TrustScores \ {None} }

ScoreInputs ==
  JurisdictionInputs \cup TagInputs \cup ReservationInputs \cup OverrideInputs

\* ------------------------------------------------- scoring state machine
\* The validation tool is not running.
NoValidation ==
  /\ loadedAlternatives = <<>>
  /\ script = ""
  /\ entryIndex = 0
  /\ vendorIndex = 0
  /\ seenIds = {}
  /\ failures = <<>>
  /\ comparedVendors = 0
  /\ exitCode = None

\* The browse page is not mounted.
NoPage ==
  /\ alternatives = <<>>
  /\ location = [q |-> None, category |-> <<>>]
  /\ searchParams = location
  /\ latestParamsRef = location
  /\ countryFilters = <<>>
  /\ pricingFilters = <<>>
  /\ openSourceOnly = FALSE
  /\ sortBy = "name"
  /\ queued = [countryFilters |-> None, pricingFilters |-> None,
               openSourceOnly |-> None, sortBy |-> None]
  /\ batched = 0
  /\ filteredAlternatives = <<>>

Init ==
  /\ alternative \in ScoreInputs
  /\ calc = None
  /\ effective = None
  /\ NoPage
  /\ NoValidation

\* A caller computes the entry's score and breakdown.
CalculateTrustScore ==
  /\ calc = None
  /\ calc' = Some(calculateTrustScore(alternative))
  /\ UNCHANGED <<alternative, effective, browseVars, validatorVars>>

\* A caller reads the entry's effective score.
GetEffectiveTrustScore ==
  /\ effective = None
  /\ effective' = Some(getEffectiveTrustScore(alternative))
  /\ UNCHANGED <<alternative, calc, browseVars, validatorVars>>

Next ==
  \/ CalculateTrustScore
  \/ GetEffectiveTrustScore

Spec == Init /\ [][Next]_vars

\* ------------------------------------------------------- scoring claims
\* What the claims read off the state.
Called == calc # None
Score == calc[1].score
Breakdown == calc[1].breakdown
NotSelfHostable == alternative.selfHostable \in {None, Some(FALSE)}

\* jurisdiction + openness + privacySignals + sovereigntyBonus - reservationPenalty
\* of the returned breakdown.
RawOfBreakdown ==
  Breakdown.jurisdiction + Breakdown.openness + Breakdown.privacySignals
    + Breakdown.sovereigntyBonus - Breakdown.reservationPenalty

\* C1: for every entry, calculateTrustScore returns a score that is an
\* integer with 1 <= score <= 10.
C1_ScoreInRange == Called => (Score \in Int /\ 1 <= Score /\ Score <= 10)

\* An entry whose raw score is below 1 scores 1, one whose raw score is above 10 scores 10.
C1_Witness ==
  /\ Called
  /\ \/ RawOfBreakdown < 1 /\ Score = 1
     \/ RawOfBreakdown > 10 /\ Score = 10

\* C2: a 'us' entry that is not self-hostable (false or absent) and whose
\* raw score is above 4 gets score exactly 4 and usCapApplied = true.
C2_UsCeiling ==
  (Called /\ alternative.country = "us" /\ NotSelfHostable /\ RawOfBreakdown > 4)
    => (Score = 4 /\ Breakdown.usCapApplied = TRUE)

C2_Witness ==
  /\ Called /\ alternative.country = "us" /\ alternative.selfHostable = None
  /\ RawOfBreakdown = 5 /\ Score = 4 /\ Breakdown.usCapApplied

\* C3: getEffectiveTrustScore returns entry.trustScore unchanged when the
\* entry carries one (no clamp, no US ceiling), and calculateTrustScore's
\* score when it carries none.
C3_EffectiveScore ==
  effective # None =>
    IF alternative.trustScore # None
    THEN effective[1] = alternative.trustScore[1]
    ELSE /\ effective[1] = calculateTrustScore(alternative).score
         /\ Called => effective[1] = Score

\* A 'us' entry with the precomputed score 12 reads 12; one with 7 reads 7
\* although the formula would cap it.
C3_Witness ==
  /\ effective # None /\ alternative.country = "us" /\ NotSelfHostable
  /\ alternative.trustScore = Some(12) /\ effective[1] = 12

\* C4: when the ceiling rule does not fire, the score is
\* min(10, max(1, raw)) of the returned breakdown, whose sovereigntyBonus is 2
\* for a self-hostable entry and 0 otherwise; the entry de / full /
\* [encryption, privacy] / not self-hostable / no reservations scores
\* 4 + 3 + 1 + 0 - 0 = 8.
IsExampleEntry ==
  /\ alternative.country = "de"
  /\ alternative.openSourceLevel = Some("full")
  /\ alternative.tags = ExampleTags
  /\ alternative.selfHostable = Some(FALSE)
  /\ alternative.reservations = Some(<<>>)

C4_ClampedSum ==
  Called =>
    /\ Breakdown.sovereigntyBonus = (IF alternative.selfHostable = Some(TRUE) THEN 2 ELSE 0)
    /\ ~Breakdown.usCapApplied =>
         Score = (IF RawOfBreakdown > 10 THEN 10
                  ELSE IF RawOfBreakdown < 1 THEN 1 ELSE RawOfBreakdown)
    /\ IsExampleEntry =>
         /\ Breakdown = [ jurisdiction |-> 4, openness |-> 3, privacySignals |-> 1,
                          sovereigntyBonus |-> 0, reservationPenalty |-> 0,
                          usCapApplied |-> FALSE ]
         /\ Score = 8

C4_Witness == Called /\ IsExampleEntry /\ Score = 8

\* A tag equals a (lower-case) vocabulary word after lower-casing: same
\* length, and each character is the word's or its upper-case form.
IsUpperOf(c, w) == \E i \in 1..26 : UpperCase[i] = c /\ LowerCase[i] = w
MatchesWord(tag, word) ==
  /\ Len(tag) = Len(word)
  /\ \A i \in 1..Len(word) : tag[i] = word[i] \/ IsUpperOf(tag[i], word[i])
PrimaryWords ==
  { <<"p","r","i","v","a","c","y">>, <<"g","d","p","r">>,
    <<"e","n","c","r","y","p","t","i","o","n">>,
    <<"z","e","r","o","-","k","n","o","w","l","e","d","g","e">>,
    <<"n","o","-","l","o","g","s">> }
SecondaryWords ==
  { <<"o","f","f","l","i","n","e">>, <<"f","e","d","e","r","a","t","e","d">>,
    <<"l","o","c","a","l">> }
HasTagIn(words) ==
  \E i \in 1..Len(alternative.tags) : \E w \in words : MatchesWord(alternative.tags[i], w)

\* C5: privacySignals is (1 if some tag, lower-cased, equals a primary word,
\* else 0) + (1 if some tag, lower-cased, equals a secondary word, else 0):
\* always 0, 1 or 2, and 1 for all five primary tags as for a single one.
C5_PrivacySignals ==
  Called =>
    /\ Breakdown.privacySignals =
         (IF HasTagIn(PrimaryWords) THEN 1 ELSE 0)
           + (IF HasTagIn(SecondaryWords) THEN 1 ELSE 0)
    /\ Breakdown.privacySignals \in {0, 1, 2}
    /\ alternative.tags \in {AllPrimaryTags, <<tagGDPR>>, <<tagNoLogs>>}
         => Breakdown.privacySignals = 1

C5_Witness ==
  /\ Called /\ alternative.tags = AllPrimaryTags /\ Breakdown.privacySignals = 1
  /\ Cardinality({toLowerCase(alternative.tags[i]) : i \in 1..5}) = 5

\* The number of the entry's reservations whose severity is in S.
CountSeverity(S) ==
  LET rs == Coalesce(alternative.reservations, <<>>)
  IN  Cardinality({i \in 1..Len(rs) : rs[i].severity \in S})

\* C6: reservationPenalty is the sum of the weights major = 3, moderate = 2,
\* minor = 1, unrecognized or absent = 1 over all reservations, uncapped, and
\* 0 for an absent list.
C6_ReservationPenalty ==
  Called =>
    /\ Breakdown.reservationPenalty =
         3 * CountSeverity({Some("major")}) + 2 * CountSeverity({Some("moderate")})
           + CountSeverity(Severities \ {Some("major"), Some("moderate")})
    /\ alternative.reservations = None => Breakdown.reservationPenalty = 0
    /\ alternative.reservations = Some(FourMajor) => Breakdown.reservationPenalty = 12

\* A list with an unrecognized and an absent severity beside a major one.
C6_Witness ==
  /\ Called
  /\ alternative.reservations =
       Some(<<Reservation(Some("critical")), Reservation(None), Reservation(Some("major"))>>)
  /\ Breakdown.reservationPenalty = 5

\* The member states of the European Union, by ISO 3166 code.
EuMemberCodes ==
  {"at", "be", "bg", "cy", "cz", "de", "dk", "ee", "es", "fi", "fr", "gr", "hr", "hu",
   "ie", "it", "lt", "lu", "lv", "mt", "nl", "pl", "pt", "ro", "se", "si", "sk"}

\* C7: jurisdiction is 4 for each of the 27 EU member-state codes, 3 for
\* ch/no/gb/is, 3 for 'eu', 1 for 'us' and 2 for every other code; the
\* classes are disjoint.
C7_Jurisdiction ==
  /\ Cardinality(EuMemberCodes) = 27
  /\ EuMemberCodes \cap {"ch", "no", "gb", "is", "eu", "us"} = {}
  /\ Called =>
       Breakdown.jurisdiction =
         (CASE alternative.country \in EuMemberCodes -> 4
            [] alternative.country \in {"ch", "no", "gb", "is"} -> 3
            [] alternative.country = "eu" -> 3
            [] alternative.country = "us" -> 1
            [] OTHER -> 2)

C7_Witness == Called /\ alternative.country = "eu" /\ Breakdown.jurisdiction = 3

\* C8: openness is 3/2/1 for an explicit level full/partial/none whatever
\* the isOpenSource flag, and 2/1 for the flag true/false only when no level
\* is given.
C8_Openness ==
  Called =>
    /\ alternative.openSourceLevel = Some("full") => Breakdown.openness = 3
    /\ alternative.openSourceLevel = Some("partial") => Breakdown.openness = 2
    /\ alternative.openSourceLevel = Some("none") => Breakdown.openness = 1
    /\ alternative.openSourceLevel = None =>
         Breakdown.openness = (IF alternative.isOpenSource THEN 2 ELSE 1)

C8_Witness ==
  /\ Called /\ alternative.openSourceLevel = Some("none")
  /\ alternative.isOpenSource = TRUE /\ Breakdown.openness = 1

\* C18: usCapApplied is true iff country = 'us', selfHostable is false or
\* absent and the score clamped to [1,10] is above 4; otherwise the flag is
\* false and the score is the clamped value, so a self-hostable 'us' entry
\* can score above 4 and a 'us' entry clamped to 4 or less is not flagged.
ClampedOfBreakdown ==
  IF RawOfBreakdown > 10 THEN 10 ELSE IF RawOfBreakdown < 1 THEN 1 ELSE RawOfBreakdown

C18_CapFlag ==
  Called =>
    /\ Breakdown.usCapApplied
         <=> (alternative.country = "us" /\ NotSelfHostable /\ ClampedOfBreakdown > 4)
    /\ ~Breakdown.usCapApplied => Score = ClampedOfBreakdown
    /\ (alternative.country = "us" /\ NotSelfHostable /\ ClampedOfBreakdown <= 4)
         => ~Breakdown.usCapApplied

\* A self-hostable 'us' entry scores above 4 without the flag.
C18_Witness ==
  /\ Called /\ alternative.country = "us" /\ alternative.selfHostable = Some(TRUE)
  /\ Score > 4 /\ ~Breakdown.usCapApplied

\* ============================================================ BrowsePage
\* The characters of the identifiers that the page sorts by.
codeUnits(id) ==
  CASE id = "de" -> <<"d","e">>
    [] id = "fr" -> <<"f","r">>
    [] id = "ch" -> <<"c","h">>
    [] id = "nl" -> <<"n","l">>
    [] id = "se" -> <<"s","e">>
    [] id = "email" -> <<"e","m","a","i","l">>
    [] id = "vpn" -> <<"v","p","n">>
    [] id = "cloud-storage" -> <<"c","l","o","u","d","-","s","t","o","r","a","g","e">>

\* The CategoryId union of types/index.ts, the ids of the categories list.
validCategoryIds ==
  {"cloud-storage", "email", "mail-client", "search-engine", "social-media", "messaging",
   "meeting-software", "video-hosting", "office-suite", "maps", "browser", "desktop-os",
   "mobile-os", "vpn", "analytics", "project-management", "password-manager",
   "2fa-authenticator", "ai-ml", "hosting", "payments", "smart-home", "ecommerce",
   "version-control", "other"}

\* URLSearchParams of the page: the 'q' value and the 'category' values.
URLSearchParams(q, category) == [q |-> q, category |-> category]

\* searchParams.get('q') ?? ''
searchTermOf(params) == Coalesce(params.q, <<>>)

\* searchParams.getAll('category').filter((c) => validCategoryIds.has(c))
categoryFiltersOf(params) ==
  LET valid(c) == c \in validCategoryIds
  IN  SelectSeq(params.category, valid)

compareByDescending(key, a, b) ==
  CASE key = "name" -> localeCompare(b.name, a.name)
    [] key = "country" -> localeCompare(codeUnits(b.country), codeUnits(a.country))
    [] key = "category" -> localeCompare(codeUnits(b.category), codeUnits(a.category))
    [] OTHER -> 0

\* The comparator of result.sort.
compareBy(key, a, b) ==
  CASE key = "name" -> localeCompare(a.name, b.name)
    [] key = "country" -> localeCompare(codeUnits(a.country), codeUnits(b.country))
    [] key = "category" -> localeCompare(codeUnits(a.category), codeUnits(b.category))
    [] OTHER -> 0

insertSortedUnstable(sorted, x, key) ==
  LET notLess == {i \in 1..Len(sorted) : compareBy(key, sorted[i], x) >= 0}
      at == IF notLess = {} THEN Len(sorted) + 1
            ELSE CHOOSE i \in notLess : \A j \in notLess : i <= j
  IN  SubSeq(sorted, 1, at - 1) \o <<x>> \o SubSeq(sorted, at, Len(sorted))

\* Array.prototype.sort, which is stable: x goes before the first element
\* that compares greater than it.
insertSorted(sorted, x, key) ==
  LET greater == {i \in 1..Len(sorted) : compareBy(key, sorted[i], x) > 0}
      at == IF greater = {} THEN Len(sorted) + 1
            ELSE CHOOSE i \in greater : \A j \in greater : i <= j
  IN  SubSeq(sorted, 1, at - 1) \o <<x>> \o SubSeq(sorted, at, Len(sorted))

RECURSIVE sortFrom(_, _, _)
sortFrom(sorted, rest, key) ==
  IF rest = <<>> THEN sorted
  ELSE sortFrom(insertSorted(sorted, Head(rest), key), Tail(rest), key)

sort(list, key) == sortFrom(<<>>, list, key)

\* The predicate of the search filter, for the lower-cased term.
matchesSearchNameOnly(alt, term) == includes(toLowerCase(alt.name), term)

matchesSearch(alt, term) ==
  \/ includes(toLowerCase(alt.name), term)
  \/ includes(toLowerCase(alt.description), term)
  \/ \E i \in 1..Len(alt.replacesUS) : includes(toLowerCase(alt.replacesUS[i]), term)
  \/ \E i \in 1..Len(alt.tags) : includes(toLowerCase(alt.tags[i]), term)

\* The useMemo body of filteredAlternatives.
computeFilteredAlternativesAnyFilter(catalogue, searchTerm, selectedFilters, key) ==
  LET term == toLowerCase(searchTerm)
      keep(alt) ==
        \/ trim(searchTerm) # <<>> /\ matchesSearch(alt, term)
        \/ contains(selectedFilters.category, alt.category)
        \/ contains(selectedFilters.country, alt.country)
        \/ contains(selectedFilters.pricing, alt.pricing)
        \/ selectedFilters.openSourceOnly /\ alt.isOpenSource
      inactive ==
        /\ trim(searchTerm) = <<>> /\ selectedFilters.category = <<>>
        /\ selectedFilters.country = <<>> /\ selectedFilters.pricing = <<>>
        /\ ~selectedFilters.openSourceOnly
  IN  sort(IF inactive THEN catalogue ELSE SelectSeq(catalogue, keep), key)

computeFilteredAlternatives(catalogue, searchTerm, selectedFilters, key) ==
  LET term == toLowerCase(searchTerm)
      bySearch(alt) == matchesSearch(alt, term)
      byCategory(alt) == contains(selectedFilters.category, alt.category)
      byCountry(alt) == contains(selectedFilters.country, alt.country)
      byPricing(alt) == contains(selectedFilters.pricing, alt.pricing)
      byOpenSource(alt) == alt.isOpenSource
      r1 == IF trim(searchTerm) # <<>> THEN SelectSeq(catalogue, bySearch) ELSE catalogue
      r2 == IF Len(selectedFilters.category) > 0 THEN SelectSeq(r1, byCategory) ELSE r1
      r3 == IF Len(selectedFilters.country) > 0 THEN SelectSeq(r2, byCountry) ELSE r2
      r4 == IF Len(selectedFilters.pricing) > 0 THEN SelectSeq(r3, byPricing) ELSE r3
      r5 == IF selectedFilters.openSourceOnly THEN SelectSeq(r4, byOpenSource) ELSE r4
  IN  sort(r5, key)

\* ----------------------------------------------------- browse page inputs
Alternative(id, name, description, replacesUS, tags, category, country, pricing, isOpenSource) ==
  [ id |-> id, name |-> name, description |-> description, replacesUS |-> replacesUS,
    tags |-> tags, category |-> category, country |-> country, pricing |-> pricing,
    isOpenSource |-> isOpenSource ]

strGmail == <<"G","m","a","i","l">>
strOutlook == <<"O","u","t","l","o","o","k">>
strYahooMail == <<"Y","a","h","o","o"," ","M","a","i","l">>
strBing == <<"B","i","n","g">>
strDrive == <<"D","r","i","v","e">>
tagVpn == <<"v","p","n">>
tagEMail == <<"E","-","M","a","i","l">>

\* The entry of data/alternatives.ts, its description shortened.
tuta ==
  Alternative("tuta", <<"T","u","t","a">>,
              <<"E","n","c","r","y","p","t","e","d"," ","e","m","a","i","l">>,
              <<strGmail, strOutlook, strYahooMail>>, TutaTags,
              "email", "de", "freemium", TRUE)
\* "mail" occurs in the name only.
mailo ==
  Alternative("mailo", <<"M","a","i","l","o">>, <<"S","u","i","t","e">>,
              <<strBing>>, <<>>, "email", "fr", "freemium", FALSE)
\* "mail" occurs in the description only, inside "Email".
posteo ==
  Alternative("posteo", <<"P","o","s","t","e","o">>, <<"E","m","a","i","l">>,
              <<>>, <<tagPrivacy>>, "email", "de", "paid", FALSE)
\* "mail" occurs in replacesUS only.
proton ==
  Alternative("proton", <<"P","r","o","t","o","n">>, <<"S","u","i","t","e">>,
              <<strBing, strYahooMail>>, <<tagVpn>>, "vpn", "ch", "freemium", TRUE)
\* "mail" occurs in a tag only.
disroot ==
  Alternative("disroot", <<"d","i","s","r","o","o","t">>, <<"C","l","o","u","d">>,
              <<strDrive>>, <<tagFederated, tagEMail>>, "cloud-storage", "nl", "free", TRUE)
\* "mail" occurs nowhere.
mullvad ==
  Alternative("mullvad", <<"M","u","l","l","v","a","d">>, <<"V","P","N">>,
              <<>>, <<tagVpn, tagNoLogs>>, "vpn", "se", "paid", TRUE)

FullCatalogue == <<proton, tuta, mullvad, posteo, disroot, mailo>>
Catalogues == {<<>>, <<tuta>>, FullCatalogue}

termMail == <<"m","a","i","l">>
SearchTerms == {<<>>, <<" ">>, termMail, <<"M","A","I","L">>, <<" ">> \o termMail}
CategoryChoices == {<<>>, <<"email">>, <<"bogus", "vpn">>}
CountryChoices == {<<>>, <<"de", "ch">>}
PricingChoices == {<<>>, <<"free", "paid">>}
SortKeys == {"trustScore", "name", "country", "category"}
InitialParams == {URLSearchParams(None, <<>>), URLSearchParams(None, <<"email">>)}

\* ------------------------------------------------ browse page state machine
NothingQueued ==
  [countryFilters |-> None, pricingFilters |-> None, openSourceOnly |-> None, sortBy |-> None]

selectedFiltersOf(params, country, pricing, openSource) ==
  [ category |-> categoryFiltersOf(params),
    country |-> country,
    pricing |-> pricing,
    openSourceOnly |-> openSource ]

\* The first render of the page.
InitBrowse ==
  /\ alternative = Entry("de", None, FALSE, <<>>, None, None, None)
  /\ calc = None
  /\ effective = None
  /\ alternatives \in Catalogues
  /\ location \in InitialParams
  /\ searchParams = location
  /\ latestParamsRef = location
  /\ countryFilters = <<>>
  /\ pricingFilters = <<>>
  /\ openSourceOnly = FALSE
  /\ sortBy = "name"
  /\ NoValidation
  /\ queued = NothingQueued
  /\ batched = 0
  /\ filteredAlternatives =
       computeFilteredAlternatives(
         alternatives, searchTermOf(searchParams),
         selectedFiltersOf(searchParams, countryFilters, pricingFilters, openSourceOnly),
         sortBy)

\* setSearchParams(params, { replace: true }) after latestParamsRef.current = params
writeParams(params) ==
  /\ latestParamsRef' = params
  /\ location' = params

\* The handler as it would be without the ref: built on the parameters of
\* the last render.
handleSearchChangeFromRender(term) ==
  /\ writeParams(IF term # <<>> THEN [searchParams EXCEPT !.q = Some(term)]
                 ELSE [searchParams EXCEPT !.q = None])
  /\ UNCHANGED <<scoreVars, validatorVars, alternatives, searchParams, countryFilters, pricingFilters,
                 openSourceOnly, sortBy, queued, filteredAlternatives>>

handleSearchChange(term) ==
  /\ writeParams(IF term # <<>> THEN [latestParamsRef EXCEPT !.q = Some(term)]
                 ELSE [latestParamsRef EXCEPT !.q = None])
  /\ UNCHANGED <<scoreVars, validatorVars, alternatives, searchParams, countryFilters, pricingFilters,
                 openSourceOnly, sortBy, queued, filteredAlternatives>>

\* The useState setters queue their value for the next render.
handleFilterChange(filterType, values) ==
  /\ CASE filterType = "category" ->
            /\ writeParams([latestParamsRef EXCEPT !.category = values])
            /\ UNCHANGED queued
       [] filterType = "country" ->
            /\ queued' = [queued EXCEPT !.countryFilters = Some(values)]
            /\ UNCHANGED <<location, latestParamsRef>>
       [] filterType = "pricing" ->
            /\ queued' = [queued EXCEPT !.pricingFilters = Some(values)]
            /\ UNCHANGED <<location, latestParamsRef>>
       [] filterType = "openSourceOnly" ->
            /\ queued' = [queued EXCEPT !.openSourceOnly = Some(values)]
            /\ UNCHANGED <<location, latestParamsRef>>
  /\ UNCHANGED <<scoreVars, validatorVars, alternatives, searchParams, countryFilters, pricingFilters,
                 openSourceOnly, sortBy, filteredAlternatives>>

handleClearAll ==
  /\ LET currentQ == latestParamsRef.q
     IN  writeParams(IF currentQ # None /\ currentQ[1] # <<>>
                     THEN URLSearchParams(currentQ, <<>>)
                     ELSE URLSearchParams(None, <<>>))
  /\ queued' = [queued EXCEPT !.countryFilters = Some(<<>>),
                              !.pricingFilters = Some(<<>>),
                              !.openSourceOnly = Some(FALSE)]
  /\ UNCHANGED <<scoreVars, validatorVars, alternatives, searchParams, countryFilters, pricingFilters,
                 openSourceOnly, sortBy, filteredAlternatives>>

\* onSortChange={setSortBy}
setSortBy(key) ==
  /\ queued' = [queued EXCEPT !.sortBy = Some(key)]
  /\ UNCHANGED <<scoreVars, validatorVars, alternatives, location, searchParams, latestParamsRef,
                 countryFilters, pricingFilters, openSourceOnly, sortBy, filteredAlternatives>>

\* A handler is called from the Filters component before the next render.
called == batched < MaxHandlersPerRender /\ batched' = batched + 1

HandleSearchChange(term) == called /\ handleSearchChange(term)
HandleFilterChange(filterType, values) == called /\ handleFilterChange(filterType, values)
HandleClearAll == called /\ handleClearAll
SetSortBy(key) == called /\ setSortBy(key)

\* React renders the page with the queued updates applied: the hooks read
\* the new values, the memo is recomputed and the effects run.
Render ==
  /\ batched > 0
  /\ searchParams' = location
  /\ latestParamsRef' = IF searchParams' # searchParams THEN searchParams' ELSE latestParamsRef
  /\ countryFilters' = Coalesce(queued.countryFilters, countryFilters)
  /\ pricingFilters' = Coalesce(queued.pricingFilters, pricingFilters)
  /\ openSourceOnly' = Coalesce(queued.openSourceOnly, openSourceOnly)
  /\ sortBy' = Coalesce(queued.sortBy, sortBy)
  /\ queued' = NothingQueued
  /\ batched' = 0
  /\ filteredAlternatives' =
       computeFilteredAlternatives(
         alternatives, searchTermOf(searchParams'),
         selectedFiltersOf(searchParams', countryFilters', pricingFilters', openSourceOnly'),
         sortBy')
  /\ UNCHANGED <<scoreVars, validatorVars, alternatives, location>>

FilterTypes == {"category", "country", "pricing", "openSourceOnly"}
ChoicesOf(filterType) ==
  CASE filterType = "category" -> CategoryChoices
    [] filterType = "country" -> CountryChoices
    [] filterType = "pricing" -> PricingChoices
    [] filterType = "openSourceOnly" -> BOOLEAN

NextBrowse ==
  \/ \E term \in SearchTerms : HandleSearchChange(term)
  \/ \E filterType \in FilterTypes : \E values \in ChoicesOf(filterType) :
       HandleFilterChange(filterType, values)
  \/ HandleClearAll
  \/ \E key \in SortKeys : SetSortBy(key)
  \/ Render

SpecBrowse == InitBrowse /\ [][NextBrowse]_vars

\* --------------------------------------------------- browse page claims
\* The criteria of the last render, read off the state.
Range(list) == {list[i] : i \in 1..Len(list)}
Occurrences(x, list) == Cardinality({i \in 1..Len(list) : list[i] = x})
RenderedTerm == IF searchParams.q = None THEN <<>> ELSE searchParams.q[1]
SelectedCategories == Range(searchParams.category) \cap validCategoryIds
SelectedCountries == Range(countryFilters)
SelectedPricing == Range(pricingFilters)

\* The term is non-empty after trimming.
SearchActive == \E i \in 1..Len(RenderedTerm) : RenderedTerm[i] \notin WhiteSpace

\* The term occurs in the field as a substring, letters compared without
\* regard to case.
SameIgnoringCase(a, b) == a = b \/ IsUpperOf(a, b) \/ IsUpperOf(b, a)
OccursIn(term, field) ==
  \E k \in 0..(Len(field) - Len(term)) :
    \A i \in 1..Len(term) : SameIgnoringCase(field[k + i], term[i])
TermFound(e) ==
  \/ OccursIn(RenderedTerm, e.name)
  \/ OccursIn(RenderedTerm, e.description)
  \/ \E r \in Range(e.replacesUS) : OccursIn(RenderedTerm, r)
  \/ \E t \in Range(e.tags) : OccursIn(RenderedTerm, t)

\* The category, jurisdiction, pricing and open-source filters, each only
\* when active.
PassesSelections(e) ==
  /\ SelectedCategories # {} => e.category \in SelectedCategories
  /\ SelectedCountries # {} => e.country \in SelectedCountries
  /\ SelectedPricing # {} => e.pricing \in SelectedPricing
  /\ openSourceOnly => e.isOpenSource
NoSelection ==
  /\ SelectedCategories = {} /\ SelectedCountries = {} /\ SelectedPricing = {}
  /\ ~openSourceOnly

\* C9: the query result holds exactly the catalogue entries that satisfy
\* every active filter, each once and none invented; with no active filter
\* and an empty search term it has the catalogue's length and entries.
C9_ExactlyThePassingEntries ==
  /\ \A e \in Range(alternatives) :
       Occurrences(e, filteredAlternatives) =
         (IF PassesSelections(e) /\ (SearchActive => TermFound(e)) THEN 1 ELSE 0)
  /\ Range(filteredAlternatives) \subseteq Range(alternatives)
  /\ (NoSelection /\ RenderedTerm = <<>>) =>
       /\ Len(filteredAlternatives) = Len(alternatives)
       /\ Range(filteredAlternatives) = Range(alternatives)

\* The category and the open-source filter together keep one entry of six.
C9_Witness ==
  /\ alternatives = FullCatalogue
  /\ SelectedCategories = {"email"} /\ openSourceOnly /\ ~SearchActive
  /\ SelectedCountries = {} /\ SelectedPricing = {}
  /\ filteredAlternatives = <<tuta>>

\* C10: with a term that is non-empty after trimming, an entry passes the
\* search filter iff the term occurs, case-insensitively, in its name, its
\* description, an item of replacesUS or a tag ("mail" finds "Email"); an
\* empty or whitespace-only term removes no entry.
C10_SearchFilter ==
  /\ \A e \in {x \in Range(alternatives) : PassesSelections(x)} :
       IF SearchActive
       THEN e \in Range(filteredAlternatives) <=> TermFound(e)
       ELSE e \in Range(filteredAlternatives)
  /\ (RenderedTerm = termMail /\ posteo \in Range(alternatives) /\ PassesSelections(posteo))
       => posteo \in Range(filteredAlternatives)

\* "mail" finds the five entries that have it in one field each, among them
\* the one whose description is "Email", and not the sixth.
C10_Witness ==
  /\ alternatives = FullCatalogue /\ NoSelection
  /\ RenderedTerm = termMail
  /\ Range(filteredAlternatives) = {tuta, mailo, posteo, proton, disroot}

\* The trust score of a catalogue entry, none of whose optional scoring
\* fields is set.
TrustScoreOf(e) ==
  getEffectiveTrustScore(
    Entry(e.country, None, e.isOpenSource, e.tags, None, None, None))
ResultScores == [i \in 1..Len(filteredAlternatives) |-> TrustScoreOf(filteredAlternatives[i])]

\* C11: with the sort key trustScore the result is ordered by the entries'
\* trust scores: two entries with different scores stand in the order of
\* their scores (all ascending or all descending), whatever their catalogue
\* position.
C11_OrderedByTrustScore ==
  sortBy = "trustScore" =>
    \/ \A i, j \in 1..Len(filteredAlternatives) : i < j => ResultScores[i] <= ResultScores[j]
    \/ \A i, j \in 1..Len(filteredAlternatives) : i < j => ResultScores[i] >= ResultScores[j]

\* The sort key of an entry, as a string.
SortKeyOf(e) ==
  CASE sortBy = "name" -> e.name
    [] sortBy = "country" -> codeUnits(e.country)
    [] sortBy = "category" -> codeUnits(e.category)
SortsByString == sortBy \in {"name", "country", "category"}
PassingEntries ==
  {e \in Range(alternatives) : PassesSelections(e) /\ (SearchActive => TermFound(e))}

\* C12: with the sort key name, country or category the result is the
\* filtered entries in ascending order of that key, key(a) <= key(b) for
\* every adjacent pair, and the sort neither adds nor removes an entry.
C12_AscendingByKey ==
  SortsByString =>
    /\ \A i \in 1..(Len(filteredAlternatives) - 1) :
         localeCompare(SortKeyOf(filteredAlternatives[i]),
                       SortKeyOf(filteredAlternatives[i + 1])) <= 0
    /\ Len(filteredAlternatives) = Cardinality(PassingEntries)
    /\ Range(filteredAlternatives) = PassingEntries

\* The whole catalogue by category: cloud-storage, email (three), vpn (two).
C12_Witness ==
  /\ sortBy = "category" /\ alternatives = FullCatalogue /\ NoSelection /\ ~SearchActive
  /\ filteredAlternatives = <<disroot, tuta, posteo, mailo, proton, mullvad>>

\* The position of a catalogue entry in the catalogue.
CatalogueIndex(e) == CHOOSE k \in 1..Len(alternatives) : alternatives[k] = e
KeepCatalogueOrder(i, j) ==
  CatalogueIndex(filteredAlternatives[i]) < CatalogueIndex(filteredAlternatives[j])
IsOpenSourceEntry(e) == e.isOpenSource

\* C13: where the sort does not distinguish entries their catalogue order
\* is kept: with a key the comparator does not handle and only
\* openSourceOnly set, the result is the open-source entries in catalogue
\* order; under any key two entries with equal keys keep their relative
\* catalogue order.
C13_StableOrder ==
  /\ ~SortsByString =>
       \A i, j \in 1..Len(filteredAlternatives) : i < j => KeepCatalogueOrder(i, j)
  /\ (~SortsByString /\ openSourceOnly /\ ~SearchActive /\ SelectedCategories = {}
        /\ SelectedCountries = {} /\ SelectedPricing = {})
       => filteredAlternatives = SelectSeq(alternatives, IsOpenSourceEntry)
  /\ SortsByString =>
       \A i, j \in 1..Len(filteredAlternatives) :
         (i < j /\ SortKeyOf(filteredAlternatives[i]) = SortKeyOf(filteredAlternatives[j]))
           => KeepCatalogueOrder(i, j)

C13_Witness ==
  /\ sortBy = "trustScore" /\ alternatives = FullCatalogue
  /\ openSourceOnly /\ ~SearchActive /\ SelectedCategories = {}
  /\ SelectedCountries = {} /\ SelectedPricing = {}
  /\ filteredAlternatives = <<proton, tuta, mullvad, disroot>>

\* ------------------------------------------- several handlers in one tick
\* The page of the shipped catalogue; up to MaxHandlersPerTick handlers run
\* before React renders.
InitTick ==
  /\ InitBrowse
  /\ alternatives = <<tuta>>

calledInTick == batched < MaxHandlersPerTick /\ batched' = batched + 1

TickSearchChange(term) == calledInTick /\ handleSearchChange(term)
TickFilterChange(filterType, values) == calledInTick /\ handleFilterChange(filterType, values)
TickClearAll == calledInTick /\ handleClearAll
TickSetSortBy(key) == calledInTick /\ setSortBy(key)

NextTick ==
  \/ \E term \in SearchTerms : TickSearchChange(term)
  \/ \E filterType \in FilterTypes : \E values \in ChoicesOf(filterType) :
       TickFilterChange(filterType, values)
  \/ TickClearAll
  \/ \E key \in SortKeys : TickSetSortBy(key)
  \/ Render

SpecTick == InitTick /\ [][NextTick]_vars

\* What a handler call with this term leaves as 'q'.
WrittenQ(term) == IF term # <<>> THEN Some(term) ELSE None

\* C19: handlers that fire in one tick build on the parameters written by
\* the one before, so no update is lost: a handler call changes 'q' or
\* 'category' in the URL, never both; a search change keeps the category
\* list last written and a category change the 'q' last written;
\* handleClearAll leaves only the current 'q' and queues the reset of the
\* country, pricing and open-source filters; the render that follows shows
\* the parameters last written and the queued values.
C19_NoUpdateLost ==
  [][ /\ batched' = batched + 1 =>
           /\ location'.q = location.q \/ location'.category = location.category
           /\ latestParamsRef' = location'
           /\ \A term \in SearchTerms :
                handleSearchChange(term) =>
                  location' = URLSearchParams(WrittenQ(term), location.category)
           /\ \A values \in CategoryChoices :
                handleFilterChange("category", values) =>
                  location' = URLSearchParams(location.q, values)
           /\ handleClearAll =>
                /\ location' = URLSearchParams(location.q, <<>>)
                /\ queued'.countryFilters = Some(<<>>)
                /\ queued'.pricingFilters = Some(<<>>)
                /\ queued'.openSourceOnly = Some(FALSE)
      /\ (batched > 0 /\ batched' = 0) =>
           /\ searchParams' = location
           /\ queued.countryFilters = Some(<<>>) => countryFilters' = <<>>
           /\ queued.pricingFilters = Some(<<>>) => pricingFilters' = <<>>
           /\ queued.openSourceOnly = Some(FALSE) => openSourceOnly' = FALSE
    ]_vars

\* A search change and a category change in one tick, not yet rendered: the
\* URL holds both.
C19_Witness ==
  /\ batched = 2
  /\ searchParams = URLSearchParams(None, <<>>)
  /\ location = URLSearchParams(Some(termMail), <<"email">>)
  /\ latestParamsRef = location

\* ======================================================== validation tool
\* The source holds the script twice: scripts/validate-us-vendor-comparisons.cjs
\* and a second copy behind the type declarations of src/types/index.ts.
\* The copies differ in the checks on a comparison's status and score.
scriptCjs == "scripts/validate-us-vendor-comparisons.cjs"
scriptTypes == "src/types/index.ts"
Scripts == {scriptCjs, scriptTypes}

\* A failure string: its wording and the ids interpolated into it ("" where
\* the wording names no vendor).
Failure(message, alternativeId, vendorId) ==
  [message |-> message, alternative |-> alternativeId, vendor |-> vendorId]

msgMissing == "missing usVendorComparisons despite replacesUS entries"
msgInvalidName == "vendor entry has an invalid name"
msgStatus == "unexpected trustScoreStatus"
msgNotNumber == "trustScoreStatus=ready but trustScore is not a number"
msgZeroReservations == "trustScoreStatus=ready but zero reservations"
msgPendingScore == "trustScoreStatus=pending but unexpectedly has a trustScore value"
msgDuplicate == "duplicate vendor id in usVendorComparisons"

\* A JavaScript value of the trustScore property, with its typeof.
JsNumber(n) == Some([type |-> "number", value |-> n])
JsString(n) == Some([type |-> "string", value |-> n])
JsUndefined == Some([type |-> "undefined", value |-> 0])
typeof(property) == IF property = None THEN "undefined" ELSE property[1].type

USVendorComparison(id, name, trustScoreStatus, trustScore, reservations) ==
  [ id |-> id, name |-> name, trustScoreStatus |-> trustScoreStatus,
    trustScore |-> trustScore, reservations |-> reservations ]

\* !vendor.name || typeof vendor.name !== 'string', for a name that is a string
invalidName(vendor) == vendor.name = ""

nameFailures(alternativeId, vendor) ==
  IF invalidName(vendor) THEN <<Failure(msgInvalidName, alternativeId, "")>> ELSE <<>>

\* The checks of one comparison in scripts/validate-us-vendor-comparisons.cjs.
vendorFailuresCjs(alternativeId, vendor) ==
  nameFailures(alternativeId, vendor)
  \o (IF vendor.trustScoreStatus # "pending" /\ vendor.trustScoreStatus # "ready"
        THEN <<Failure(msgStatus, alternativeId, vendor.id)>> ELSE <<>>)
  \o (IF vendor.trustScoreStatus = "ready" /\ typeof(vendor.trustScore) # "number"
        THEN <<Failure(msgNotNumber, alternativeId, vendor.id)>> ELSE <<>>)
  \o (IF /\ vendor.trustScoreStatus = "pending"
         /\ vendor.trustScore # None
         /\ typeof(vendor.trustScore) # "undefined"
        THEN <<Failure(msgPendingScore, alternativeId, vendor.id)>> ELSE <<>>)

\* The checks of one comparison in the copy in src/types/index.ts.
vendorFailuresTypes(alternativeId, vendor) ==
  nameFailures(alternativeId, vendor)
  \o (IF vendor.trustScoreStatus = "ready"
        THEN (IF Len(Coalesce(vendor.reservations, <<>>)) = 0
                THEN <<Failure(msgZeroReservations, alternativeId, vendor.id)>> ELSE <<>>)
             \o (IF typeof(vendor.trustScore) # "number"
                   THEN <<Failure(msgNotNumber, alternativeId, vendor.id)>> ELSE <<>>)
      ELSE IF vendor.trustScoreStatus # "pending"
        THEN <<Failure(msgStatus, alternativeId, vendor.id)>>
      ELSE <<>>)

vendorFailures(alternativeId, vendor) ==
  IF script = scriptCjs THEN vendorFailuresCjs(alternativeId, vendor)
  ELSE vendorFailuresTypes(alternativeId, vendor)

duplicateFailures(alternativeId, vendor) ==
  IF vendor.id \in seenIds THEN <<Failure(msgDuplicate, alternativeId, vendor.id)>> ELSE <<>>

\* ---------------------------------------------------- validated catalogues
ValidatedEntry(id, replacesUS, usVendorComparisons) ==
  [id |-> id, replacesUS |-> replacesUS, usVendorComparisons |-> usVendorComparisons]

oneReservation == Some(<<Reservation(Some("major"))>>)

readyVendor(id) == USVendorComparison(id, "Vendor", "ready", JsNumber(3), oneReservation)
pendingVendor(id) == USVendorComparison(id, "Vendor", "pending", None, None)
readyWithoutScore == USVendorComparison("google", "Vendor", "ready", None, oneReservation)
readyWithText == USVendorComparison("google", "Vendor", "ready", JsString(3), oneReservation)
readyWithoutReservations == USVendorComparison("google", "Vendor", "ready", JsNumber(3), None)
readyWithNoReservation ==
  USVendorComparison("google", "Vendor", "ready", JsNumber(3), Some(<<>>))
pendingWithScore == USVendorComparison("google", "Vendor", "pending", JsNumber(3), None)
pendingWithUndefined == USVendorComparison("google", "Vendor", "pending", JsUndefined, None)
draftVendor == USVendorComparison("google", "Vendor", "draft", None, None)
namelessVendor == USVendorComparison("google", "", "ready", JsNumber(3), oneReservation)

VendorIds == {"google", "microsoft"}
VendorPool ==
  {readyVendor(id) : id \in VendorIds} \cup {pendingVendor(id) : id \in VendorIds}
  \cup {readyWithoutScore, readyWithText, readyWithoutReservations, readyWithNoReservation,
        pendingWithScore, pendingWithUndefined, draftVendor, namelessVendor}

ReplacesUSChoices == {<<>>, <<"Gmail">>}

\* One entry, with every list of comparisons up to MaxVendors.
OneEntryCatalogues ==
  { <<ValidatedEntry("tuta", r, c)>> :
      r \in ReplacesUSChoices,
      c \in {None} \cup {Some(l) : l \in SeqUpTo(VendorPool, MaxVendors)} }

\* Several entries, each of one of a few shapes; ids are unique in a catalogue.
EntryIds == <<"tuta", "proton", "mullvad", "posteo">>
ComparisonSamples ==
  { None, Some(<<>>), Some(<<readyVendor("google")>>),
    Some(<<readyVendor("google"), readyVendor("google")>>),
    Some(<<pendingWithScore>>), Some(<<readyWithoutReservations, draftVendor>>) }
EntrySamples == ReplacesUSChoices \X ComparisonSamples
ManyEntryCatalogues ==
  { [i \in 1..Len(shapes) |-> ValidatedEntry(EntryIds[i], shapes[i][1], shapes[i][2])] :
      shapes \in SeqUpTo(EntrySamples, MaxEntries) }

ValidatedCatalogues == OneEntryCatalogues \cup ManyEntryCatalogues

\* ------------------------------------------------- validator state machine
\* The script has loaded the catalogue and enters validateUSVendorComparisons.
InitValidate ==
  /\ alternative = Entry("de", None, FALSE, <<>>, None, None, None)
  /\ calc = None
  /\ effective = None
  /\ NoPage
  /\ loadedAlternatives \in ValidatedCatalogues
  /\ script \in Scripts
  /\ entryIndex = 1
  /\ vendorIndex = 0
  /\ seenIds = {}
  /\ failures = <<>>
  /\ comparedVendors = 0
  /\ exitCode = None

comparisonsOf(entry) == Coalesce(entry.usVendorComparisons, <<>>)

\* The entry step as it would be with one set of seen ids for the whole
\* catalogue.
VisitEntryKeepsSeenIds ==
  /\ exitCode = None
  /\ entryIndex \in 1..Len(loadedAlternatives)
  /\ vendorIndex = 0
  /\ LET entry == loadedAlternatives[entryIndex]
         comparisons == comparisonsOf(entry)
     IN  IF Len(entry.replacesUS) > 0 /\ Len(comparisons) = 0
           THEN /\ failures' = Append(failures, Failure(msgMissing, entry.id, ""))
                /\ entryIndex' = entryIndex + 1
                /\ UNCHANGED vendorIndex
           ELSE /\ IF Len(comparisons) = 0
                     THEN entryIndex' = entryIndex + 1 /\ vendorIndex' = 0
                     ELSE entryIndex' = entryIndex /\ vendorIndex' = 1
                /\ UNCHANGED failures
  /\ UNCHANGED <<scoreVars, browseVars, loadedAlternatives, script, seenIds,
                 comparedVendors, exitCode>>

\* The head of the outer loop's body: the entry-level check, and the start of
\* the inner loop (which ends at once over no comparisons).
VisitEntry ==
  /\ exitCode = None
  /\ entryIndex \in 1..Len(loadedAlternatives)
  /\ vendorIndex = 0
  /\ LET entry == loadedAlternatives[entryIndex]
         comparisons == comparisonsOf(entry)
     IN  IF Len(entry.replacesUS) > 0 /\ Len(comparisons) = 0
           THEN /\ failures' = Append(failures, Failure(msgMissing, entry.id, ""))
                /\ entryIndex' = entryIndex + 1
                /\ UNCHANGED <<vendorIndex, seenIds>>
           ELSE /\ seenIds' = {}
                /\ IF Len(comparisons) = 0
                     THEN entryIndex' = entryIndex + 1 /\ vendorIndex' = 0
                     ELSE entryIndex' = entryIndex /\ vendorIndex' = 1
                /\ UNCHANGED failures
  /\ UNCHANGED <<scoreVars, browseVars, loadedAlternatives, script, comparedVendors, exitCode>>

\* The loop as it would be if it stopped at the first comparison with a failure.
VisitVendorFailFast ==
  /\ exitCode = None
  /\ entryIndex \in 1..Len(loadedAlternatives)
  /\ vendorIndex >= 1
  /\ LET entry == loadedAlternatives[entryIndex]
         comparisons == comparisonsOf(entry)
         vendor == comparisons[vendorIndex]
         found == vendorFailures(entry.id, vendor) \o duplicateFailures(entry.id, vendor)
     IN  /\ comparedVendors' = comparedVendors + 1
         /\ failures' = failures \o found
         /\ seenIds' = seenIds \cup {vendor.id}
         /\ IF found # <<>>
              THEN entryIndex' = Len(loadedAlternatives) + 1 /\ vendorIndex' = 0
              ELSE IF vendorIndex = Len(comparisons)
                THEN entryIndex' = entryIndex + 1 /\ vendorIndex' = 0
                ELSE entryIndex' = entryIndex /\ vendorIndex' = vendorIndex + 1
  /\ UNCHANGED <<scoreVars, browseVars, loadedAlternatives, script, exitCode>>

\* One pass of the inner loop's body.
VisitVendor ==
  /\ exitCode = None
  /\ entryIndex \in 1..Len(loadedAlternatives)
  /\ vendorIndex >= 1
  /\ LET entry == loadedAlternatives[entryIndex]
         comparisons == comparisonsOf(entry)
         vendor == comparisons[vendorIndex]
     IN  /\ comparedVendors' = comparedVendors + 1
         /\ failures' = failures \o vendorFailures(entry.id, vendor)
                                 \o duplicateFailures(entry.id, vendor)
         /\ seenIds' = seenIds \cup {vendor.id}
         /\ IF vendorIndex = Len(comparisons)
              THEN entryIndex' = entryIndex + 1 /\ vendorIndex' = 0
              ELSE entryIndex' = entryIndex /\ vendorIndex' = vendorIndex + 1
  /\ UNCHANGED <<scoreVars, browseVars, loadedAlternatives, script, exitCode>>

\* After the loops: process.exit(1) on any failure, otherwise the script ends.
Report ==
  /\ exitCode = None
  /\ entryIndex > Len(loadedAlternatives)
  /\ exitCode' = Some(IF Len(failures) > 0 THEN 1 ELSE 0)
  /\ UNCHANGED <<scoreVars, browseVars, loadedAlternatives, script, entryIndex, vendorIndex,
                 seenIds, failures, comparedVendors>>

NextValidate ==
  \/ VisitEntry
  \/ VisitVendor
  \/ Report

SpecValidate == InitValidate /\ [][NextValidate]_vars

\* ---------------------------------------------------- validator claims
Finished == exitCode # None
ExitedNonZero == exitCode # None /\ exitCode[1] # 0

\* The comparisons an entry of the loaded catalogue lists.
ListedComparisons(i) ==
  IF loadedAlternatives[i].usVendorComparisons = None THEN <<>>
  ELSE loadedAlternatives[i].usVendorComparisons[1]

\* Where the failure list holds this wording about entry i and this vendor id.
ReportedAt(message, i, vendorId) ==
  { k \in DOMAIN failures :
      /\ failures[k].message = message
      /\ failures[k].alternative = loadedAlternatives[i].id
      /\ failures[k].vendor = vendorId }

HasNumericScore(vendor) == vendor.trustScore # None /\ vendor.trustScore[1].type = "number"
CarriesScore(vendor) == vendor.trustScore # None /\ vendor.trustScore[1].type # "undefined"
HasReservations(vendor) == vendor.reservations # None /\ vendor.reservations[1] # <<>>

ReadyWithoutScore(i, vendorId) ==
  { j \in DOMAIN ListedComparisons(i) :
      /\ ListedComparisons(i)[j].id = vendorId
      /\ ListedComparisons(i)[j].trustScoreStatus = "ready"
      /\ ~HasNumericScore(ListedComparisons(i)[j]) }

ReadyWithoutReservations(i, vendorId) ==
  { j \in DOMAIN ListedComparisons(i) :
      /\ ListedComparisons(i)[j].id = vendorId
      /\ ListedComparisons(i)[j].trustScoreStatus = "ready"
      /\ ~HasReservations(ListedComparisons(i)[j]) }

PendingWithScore(i, vendorId) ==
  { j \in DOMAIN ListedComparisons(i) :
      /\ ListedComparisons(i)[j].id = vendorId
      /\ ListedComparisons(i)[j].trustScoreStatus = "pending"
      /\ CarriesScore(ListedComparisons(i)[j]) }

\* C14: when the tool has finished, the failure list holds a "not a number"
\* failure for every "ready" comparison without a numeric trustScore and a
\* "zero reservations" failure for every "ready" comparison whose
\* reservations are absent or empty, and with such a comparison in the
\* catalogue the exit status is not zero.
C14_ReadyNeedsScoreAndReservations ==
  Finished =>
    \A i \in DOMAIN loadedAlternatives : \A vendorId \in VendorIds :
      /\ Cardinality(ReportedAt(msgNotNumber, i, vendorId))
           >= Cardinality(ReadyWithoutScore(i, vendorId))
      /\ Cardinality(ReportedAt(msgZeroReservations, i, vendorId))
           >= Cardinality(ReadyWithoutReservations(i, vendorId))
      /\ (ReadyWithoutScore(i, vendorId) \cup ReadyWithoutReservations(i, vendorId)) # {}
           => ExitedNonZero

\* C15: when the tool has finished, the failure list holds a failure for
\* every "pending" comparison that carries a trustScore value, and with such
\* a comparison in the catalogue the exit status is not zero.
C15_PendingCarriesNoScore ==
  Finished =>
    \A i \in DOMAIN loadedAlternatives : \A vendorId \in VendorIds :
      /\ Cardinality(ReportedAt(msgPendingScore, i, vendorId))
           >= Cardinality(PendingWithScore(i, vendorId))
      /\ PendingWithScore(i, vendorId) # {} => ExitedNonZero

\* The comparisons the loops have passed: those of the entries before the
\* current one and those before the current position in the current entry.
Visited(i, j) == i < entryIndex \/ (i = entryIndex /\ vendorIndex >= 1 /\ j < vendorIndex)

RECURSIVE ComparisonsBefore(_)
ComparisonsBefore(i) ==
  IF i <= 1 THEN 0 ELSE ComparisonsBefore(i - 1) + Len(ListedComparisons(i - 1))

\* What both copies of the script hold against comparison j of entry i: the
\* wording and the vendor id it names.
OffencesAt(i, j) ==
  LET vendor == ListedComparisons(i)[j]
  IN  (IF vendor.name = "" THEN {<<msgInvalidName, "">>} ELSE {})
      \cup (IF vendor.trustScoreStatus \notin {"pending", "ready"}
              THEN {<<msgStatus, vendor.id>>} ELSE {})
      \cup (IF vendor.trustScoreStatus = "ready" /\ ~HasNumericScore(vendor)
              THEN {<<msgNotNumber, vendor.id>>} ELSE {})
      \cup (IF \E k \in 1..(j - 1) : ListedComparisons(i)[k].id = vendor.id
              THEN {<<msgDuplicate, vendor.id>>} ELSE {})

LacksComparisons(i) ==
  loadedAlternatives[i].replacesUS # <<>> /\ ListedComparisons(i) = <<>>

\* C16: the tool is not fail-fast. At every point of the run the comparisons
\* counted are all those passed so far and the failure list holds the failure
\* of every offending entry and comparison passed so far, whatever was found
\* before; the tool reports only after the last entry, having counted every
\* comparison of the catalogue; and the exit status is non-zero exactly when
\* the failure list is not empty.
C16_NotFailFast ==
  /\ comparedVendors
       = ComparisonsBefore(Min(entryIndex, Len(loadedAlternatives) + 1))
         + (IF vendorIndex >= 1 THEN vendorIndex - 1 ELSE 0)
  /\ \A i \in DOMAIN loadedAlternatives :
       /\ (i < entryIndex /\ LacksComparisons(i)) => ReportedAt(msgMissing, i, "") # {}
       /\ \A message \in {msgInvalidName, msgStatus, msgNotNumber, msgDuplicate} :
            \A vendorId \in VendorIds \cup {""} :
              Cardinality(ReportedAt(message, i, vendorId))
                >= Cardinality({ j \in DOMAIN ListedComparisons(i) :
                                   Visited(i, j) /\ <<message, vendorId>> \in OffencesAt(i, j) })
  /\ Finished =>
       /\ entryIndex = Len(loadedAlternatives) + 1
       /\ comparedVendors = ComparisonsBefore(Len(loadedAlternatives) + 1)
       /\ ExitedNonZero <=> failures # <<>>

\* An entry without comparisons and, after it, an entry whose second
\* comparison has an unknown status: both failures are listed.
C16_Witness ==
  /\ Finished
  /\ Len(loadedAlternatives) = 2
  /\ ReportedAt(msgMissing, 1, "") # {}
  /\ ReportedAt(msgStatus, 2, "google") # {}
  /\ comparedVendors = 2
  /\ exitCode = Some(1)

\* The comparisons of entry i that repeat the id of an earlier one of entry i.
RepeatsEarlierId(i, vendorId) ==
  { j \in DOMAIN ListedComparisons(i) :
      /\ ListedComparisons(i)[j].id = vendorId
      /\ \E k \in 1..(j - 1) : ListedComparisons(i)[k].id = vendorId }

\* C17: when the tool has finished, an entry has a "missing comparisons"
\* failure exactly if it names US products and lists no comparison, and its
\* "duplicate id" failures are exactly one for each comparison that repeats
\* the id of an earlier comparison of the same entry: an id used again in
\* another entry is not a failure.
C17_ComparisonsPresentAndIdsUnique ==
  Finished =>
    \A i \in DOMAIN loadedAlternatives :
      /\ Cardinality(ReportedAt(msgMissing, i, ""))
           = (IF LacksComparisons(i) THEN 1 ELSE 0)
      /\ \A vendorId \in VendorIds :
           Cardinality(ReportedAt(msgDuplicate, i, vendorId))
             = Cardinality(RepeatsEarlierId(i, vendorId))

\* "google" is compared once in the first entry and twice in the second: the
\* only failure is the duplicate within the second entry.
C17_Witness ==
  /\ Finished
  /\ Len(loadedAlternatives) = 2
  /\ ListedComparisons(1) = <<readyVendor("google")>>
  /\ ListedComparisons(2) = <<readyVendor("google"), readyVendor("google")>>
  /\ failures = <<Failure(msgDuplicate, "proton", "google")>>
  /\ exitCode = Some(1)

====
